---- MODULE Spec2Model ----
(***************************************************************************)
(* Model of the multi-agent story flow of src/agents/agent_flow.py: the    *)
(* LangGraph state machine retrieve -> generate -> evaluate -> revise ->   *)
(* (generate | END), its State record, the scorer _judge_ok and the        *)
(* retrieval / vocabulary / generation collaborators it calls.             *)
(*                                                                         *)
(* Representation of text.  A story is a sequence of runs [w, n]: the raw  *)
(* alphabetic word w written n times in a row (separators are not kept).   *)
(* The tokens of a story are its words lower-cased, as                     *)
(* re.findall(r"[a-zA-Z]+", story.lower()) gives them.  A keyword string   *)
(* is the sequence of its comma-separated pieces, each piece a sequence of *)
(* atoms: " " (white space) or a word.                                     *)
(***************************************************************************)
EXTENDS Integers, Sequences, FiniteSets, TLC

VARIABLES
    keywords,      \* State["keywords"]
    length,        \* State["length"]
    use_rag_only,  \* State["use_rag_only"]
    allowed_vocab, \* State["allowed_vocab"]
    context,       \* State["context"]
    story,         \* State["story"]
    critique,      \* State["critique"]
    tries,         \* State["tries"]
    ok,            \* State["ok"]
    logs,          \* State["logs"]
    pc,            \* the graph node to run next, "END", or "error" (an exception left app.invoke)
    steps,         \* history: number of graph nodes executed so far
    agentCalls,    \* history: number of AgentExecutor.invoke calls made so far
    firstDraft,    \* history: the story returned by the first generation
    searchCalls,   \* history: the calls made to vector_db.search, with their outcome
    vocabCalls,    \* history: the calls made to get_filtered_vocabulary and get_vocabulary
    lastRequest,   \* history: what the latest AgentExecutor.invoke handed to the agent
    g_pc,          \* position in RAGSystem.search_and_generate_story, "idle" while the flow runs
    client,        \* StoryGenerator.client is set
    use_only_rag_vocabulary,  \* argument of search_and_generate_story
    available_vocabulary,     \* argument of generate_story_with_openai, <<>> for None
    attempt,       \* loop variable of generate_story_with_openai
    best_story,    \* best_story, <<>> for None
    best_rag_rate, \* best_rag_rate as a fraction num / den
    llmCalls,      \* history: the outcomes of client.chat.completions.create
    result,        \* the dict search_and_generate_story returns
    g_keywords,    \* argument of search_and_generate_story: the keyword string, as its pieces
    context_documents,  \* argument of generate_story: the documents found
    context_text   \* history: the context lines put into the prompt

flowVars ==
    <<keywords, length, use_rag_only, allowed_vocab, context, story, critique,
      tries, ok, logs, pc, steps, agentCalls, firstDraft, searchCalls, vocabCalls,
      lastRequest>>

genVars ==
    <<g_pc, client, use_only_rag_vocabulary, available_vocabulary, attempt,
      best_story, best_rag_rate, llmCalls, result, g_keywords, context_documents,
      context_text>>

vars ==
    <<keywords, length, use_rag_only, allowed_vocab, context, story, critique,
      tries, ok, logs, pc, steps, agentCalls, firstDraft, searchCalls, vocabCalls,
      lastRequest,
      g_pc, client, use_only_rag_vocabulary, available_vocabulary, attempt,
      best_story, best_rag_rate, llmCalls, result, g_keywords, context_documents,
      context_text>>

----------------------------------------------------------------------------
(* Bounds of the model and constants of the program *)

\* most comma-separated pieces in a keyword string
MaxKeywords == 2

\* the stories handed to the scorer alone have 30 to 30 + ScorerPad times "The"
ScorerPad == 2

\* n_results of the search call in node_retrieve
NResults == 3

\* the sparsity threshold of the filtered vocabulary
MinVocab == 30

\* the scorer's least number of tokens
MinTokens == 80

\* the revision cap of _decide
MaxTries == 2

----------------------------------------------------------------------------
(* Text *)

\* str.lower() on a raw word
Lower(w) ==
    CASE w = "The" -> "the"
      [] w = "Forest" -> "forest"
      [] w = "Thing" -> "thing"
      [] w = "Dragon" -> "dragon"
      [] OTHER -> w

RECURSIVE lstrip(_)
lstrip(k) == IF k # <<>> /\ Head(k) = " " THEN lstrip(Tail(k)) ELSE k

RECURSIVE rstrip(_)
rstrip(k) ==
    IF k # <<>> /\ k[Len(k)] = " " THEN rstrip(SubSeq(k, 1, Len(k) - 1)) ELSE k

\* str.strip() on a piece of the keyword string
strip(k) == rstrip(lstrip(k))

\* first_kw taking the first piece, empty or not
first_kw_unfiltered(raw) == strip(raw[1])

\* next((k.strip() for k in raw.split(",") if k.strip()), "")
first_kw(raw) ==
    LET nonEmpty == SelectSeq(raw, LAMBDA k : strip(k) # <<>>)
    IN  IF nonEmpty = <<>> THEN <<>> ELSE strip(nonEmpty[1])

RECURSIVE SumRuns(_)
SumRuns(runs) == IF runs = <<>> THEN 0 ELSE Head(runs).n + SumRuns(Tail(runs))

\* the tokens of a story, as runs of lower-cased words
words_of(text) == [i \in DOMAIN text |-> [w |-> Lower(text[i].w), n |-> text[i].n]]

Range(s) == {s[i] : i \in DOMAIN s}

essential ==
    {"a", "an", "the", "is", "are", "was", "were", "be", "have", "has", "had",
     "do", "does", "did", "will", "would", "can", "could", "should", "may", "might",
     "must", "shall", "and", "or", "but", "so", "if", "when", "where", "what",
     "who", "how", "why", "in", "on", "at", "by", "for", "with", "to", "from",
     "about", "i", "you", "he", "she", "it", "we", "they", "me", "him", "her",
     "us", "them", "my", "your", "his", "its", "our", "their", "this",
     "that", "these", "those", "here", "there", "now", "then"}

\* _judge_ok taking the words of the story as they are written
judge_case_sensitive(text, allowed) ==
    LET words == text
        total == SumRuns(words)
        content == SelectSeq(words, LAMBDA r : r.w \notin essential)
        nContent == SumRuns(content)
        matched == SumRuns(SelectSeq(content, LAMBDA r : r.w \in Range(allowed)))
        thing == SumRuns(SelectSeq(words, LAMBDA r : r.w = "thing"))
    IN  IF total < MinTokens THEN FALSE
        ELSE IF allowed # <<>> /\ nContent > 0 /\ 10 * matched < 6 * nContent THEN FALSE
        ELSE IF 20 * thing > total THEN FALSE
        ELSE TRUE

\* _judge_ok rejecting a story of exactly 80 tokens
judge_short_at_80(text, allowed) ==
    LET words == words_of(text)
        total == SumRuns(words)
        content == SelectSeq(words, LAMBDA r : r.w \notin essential)
        nContent == SumRuns(content)
        matched == SumRuns(SelectSeq(content, LAMBDA r : r.w \in Range(allowed)))
        thing == SumRuns(SelectSeq(words, LAMBDA r : r.w = "thing"))
    IN  IF total <= MinTokens THEN FALSE
        ELSE IF allowed # <<>> /\ nContent > 0 /\ 10 * matched < 6 * nContent THEN FALSE
        ELSE IF 20 * thing > total THEN FALSE
        ELSE TRUE

\* _judge_ok rejecting a rate of exactly 0.6
judge_rate_inclusive(text, allowed) ==
    LET words == words_of(text)
        total == SumRuns(words)
        content == SelectSeq(words, LAMBDA r : r.w \notin essential)
        nContent == SumRuns(content)
        matched == SumRuns(SelectSeq(content, LAMBDA r : r.w \in Range(allowed)))
        thing == SumRuns(SelectSeq(words, LAMBDA r : r.w = "thing"))
    IN  IF total < MinTokens THEN FALSE
        ELSE IF allowed # <<>> /\ nContent > 0 /\ 10 * matched <= 6 * nContent THEN FALSE
        ELSE IF 20 * thing > total THEN FALSE
        ELSE TRUE

\* _judge_ok rejecting "thing" at exactly 5% of the tokens
judge_filler_inclusive(text, allowed) ==
    LET words == words_of(text)
        total == SumRuns(words)
        content == SelectSeq(words, LAMBDA r : r.w \notin essential)
        nContent == SumRuns(content)
        matched == SumRuns(SelectSeq(content, LAMBDA r : r.w \in Range(allowed)))
        thing == SumRuns(SelectSeq(words, LAMBDA r : r.w = "thing"))
    IN  IF total < MinTokens THEN FALSE
        ELSE IF allowed # <<>> /\ nContent > 0 /\ 10 * matched < 6 * nContent THEN FALSE
        ELSE IF 20 * thing >= total THEN FALSE
        ELSE TRUE

\* The scorer.  rate < 0.6 and count > len * 0.05 are compared in integers:
\* matched / content < 0.6 iff 10 * matched < 6 * content, and
\* thing > total * 0.05 iff 20 * thing > total (the floating-point results
\* agree with these for every count below 5000).
_judge_ok(text, allowed) ==
    LET words == words_of(text)
        total == SumRuns(words)
        content == SelectSeq(words, LAMBDA r : r.w \notin essential)
        nContent == SumRuns(content)
        matched == SumRuns(SelectSeq(content, LAMBDA r : r.w \in Range(allowed)))
        thing == SumRuns(SelectSeq(words, LAMBDA r : r.w = "thing"))
    IN  IF total < MinTokens THEN FALSE
        ELSE IF allowed # <<>> /\ nContent > 0 /\ 10 * matched < 6 * nContent THEN FALSE
        ELSE IF 20 * thing > total THEN FALSE
        ELSE TRUE

----------------------------------------------------------------------------
(* Inputs and collaborator outcomes *)

KwPieces == {<<>>, <<" ">>, <<"ocean">>, <<" ", "sailor">>}

RECURSIVE SeqsUpTo(_, _)
SeqsUpTo(S, n) ==
    IF n = 0 THEN {<<>>}
    ELSE LET shorter == SeqsUpTo(S, n - 1)
         IN  shorter \cup {Append(s, x) : s \in shorter, x \in S}

\* "".split(",") is [""]: a keyword string has at least one piece
KeywordInputs == SeqsUpTo(KwPieces, MaxKeywords) \ {<<>>}

LengthInputs == {"short", "medium", "long"}

\* the allowed_vocab argument: None or [] (unrestricted), or a word list
AllowedInputs == {<<>>, <<"forest", "magic">>}

Returned(v) == [raised |-> FALSE, val |-> v]
Raised == [raised |-> TRUE, val |-> <<>>]

Ranked == <<"doc1", "doc2", "doc3">>

\* vector_db.search(q, n_results=3): at most n_results documents, or an exception
SearchOutcomes == {Returned(SubSeq(Ranked, 1, n)) : n \in {0, 2, NResults}} \cup {Raised}

VocabWords ==
    <<"forest", "magic", "w03", "w04", "w05", "w06", "w07", "w08", "w09", "w10",
      "w11", "w12", "w13", "w14", "w15", "w16", "w17", "w18", "w19", "w20",
      "w21", "w22", "w23", "w24", "w25", "w26", "w27", "w28", "w29", "w30",
      "dragon">>

Vocab(n) == SubSeq(VocabWords, 1, n)

\* vector_db.get_filtered_vocabulary(keywords, context)
FilteredOutcomes ==
    {Returned(<<>>), Returned(Vocab(MinVocab - 1)), Returned(Vocab(MinVocab)), Raised}

\* vector_db.get_vocabulary()
FullOutcomes == {Returned(<<>>), Returned(Vocab(Len(VocabWords))), Raised}

Text(nThe, nThing, nForest, nDragon) ==
    SelectSeq(<<[w |-> "The", n |-> nThe], [w |-> "thing", n |-> nThing],
                [w |-> "forest", n |-> nForest], [w |-> "dragon", n |-> nDragon]>>,
              LAMBDA r : r.n > 0)

\* the texts an agent run may return as its "output"
Stories ==
    {Text(32, 0, 48, 0),   \* 80 tokens
     Text(31, 0, 48, 0),   \* 79 tokens
     Text(20, 0, 40, 0),   \* 60 tokens
     Text(30, 0, 30, 20),  \* 80 tokens, 30 of 50 content words are "forest"
     Text(30, 0, 29, 21),  \* 80 tokens, 29 of 50 content words are "forest"
     Text(31, 4, 45, 0),   \* 80 tokens, 4 of them "thing"
     Text(30, 5, 45, 0)}   \* 80 tokens, 5 of them "thing"

\* AgentExecutor.invoke: a text, or an exception of the model or a tool
AgentOutcomes == {Returned(s) : s \in Stories} \cup {Raised}

\* the variables of the agent's prompt that the caller's dict fills; tools,
\* tool_names and agent_scratchpad are filled by the agent itself
PromptVariables == {"input"}

\* the entries of the dict given to invoke that the prompt template renders
Rendered(inputs) == [k \in (DOMAIN inputs) \cap PromptVariables |-> inputs[k]]

\* _make_tools: the tools of the agent and the defaults bound to them
Tools(default_keywords, default_context, default_allowed, default_length) ==
    [names |-> {"generate_draft", "vocab_analysis"},
     keywords |-> default_keywords,
     context |-> default_context,
     allowed_vocab |-> default_allowed,
     length |-> default_length,
     story |-> <<>>]

NoRequest == [node |-> "none"]

----------------------------------------------------------------------------
(* The story generator behind RAGSystem.search_and_generate_story *)

\* for attempt in range(max_retries)
max_retries == 3

\* len(story.split()) < 50
MinWords == 50

GenText(nThe, nThing, nSomething, nForest, nDragon) ==
    SelectSeq(<<[w |-> "The", n |-> nThe], [w |-> "thing", n |-> nThing],
                [w |-> "something", n |-> nSomething],
                [w |-> "forest", n |-> nForest], [w |-> "dragon", n |-> nDragon]>>,
              LAMBDA r : r.n > 0)

\* the texts the model may answer with; "" is the first
Candidates ==
    {<<>>,
     GenText(20, 0, 0, 29, 0),    \* 49 words
     GenText(20, 0, 0, 30, 0),    \* 50 words, all content words are "forest"
     GenText(50, 0, 0, 0, 0),     \* 50 words, no content word
     GenText(20, 5, 0, 25, 0),    \* 50 words, 5 of them "thing"
     GenText(20, 6, 0, 24, 0),    \* 50 words, 6 of them "thing"
     GenText(20, 0, 6, 24, 0),    \* 50 words, 6 of them "something"
     GenText(20, 0, 0, 12, 18),   \* 50 words, 12 of 30 content words are "forest"
     GenText(20, 0, 0, 11, 19),   \* 50 words, 11 of 30 content words are "forest"
     GenText(20, 0, 0, 0, 30)}    \* 50 words, no content word is "forest"

\* client.chat.completions.create(...): a text, or an exception
LLMOutcomes == {Returned(c) : c \in Candidates} \cup {Raised}

\* context_documents[:3]
MaxContextDocs == 3

\* doc[:200]
MaxDocChars == 200

\* the documents of the store in ranking order: a name and a length in characters
GenDocs ==
    <<[id |-> "doc1", len |-> 50], [id |-> "doc2", len |-> MaxDocChars],
      [id |-> "doc3", len |-> MaxDocChars + 1], [id |-> "doc4", len |-> 300],
      [id |-> "doc5", len |-> 10]>>

\* vector_db.search(keywords, n_results=5) as search_and_generate_story sees it
GenSearchOutcomes == {Returned(SubSeq(GenDocs, 1, n)) : n \in {0, 2, 5}} \cup {Raised}

\* the keyword strings: "forest, magic, Dragon", "", "for, story " and "Forest,forest"
GenKeywordInputs ==
    {<< <<"forest">>, <<" ", "magic">>, <<" ", "Dragon">> >>,
     << <<>> >>,
     << <<"for">>, <<" ", "story", " ">> >>,
     << <<"Forest">>, <<"forest">> >>}

\* vector_db.get_filtered_vocabulary(keywords, context_documents)
GenVocabOutcomes ==
    {Returned(<<>>), Returned(<<"forest", "magic">>), Returned(<<"Forest", "the">>), Raised}

\* a story field: a text with the words the analysis block lists, or a message
StoryText(text, non_rag) == [text |-> text, note |-> "", non_rag |-> non_rag]
Message(note) == [text |-> <<>>, note |-> note, non_rag |-> {}]

NoResult == [generation_method |-> "", story |-> Message("")]

\* the words _annotate_non_rag_words always allows
annotate_essential ==
    essential \cup {"not", "very", "too", "also", "only", "just", "even", "still",
                    "yet", "already", "always", "never", "often", "sometimes",
                    "one", "two", "three", "four", "five"}

\* the analysis block is appended when some word is neither in the vocabulary
\* nor in the essential words; the block lists those words
_annotate_non_rag_words(text, vocabulary) ==
    IF vocabulary = <<>> THEN StoryText(text, {})
    ELSE LET vocab_set == {Lower(w) : w \in Range(vocabulary)}
             allowed_words == vocab_set \cup annotate_essential
         IN  StoryText(text, {r.w : r \in {x \in Range(text) : Lower(x.w) \notin allowed_words}})

\* a in b for two lower-case words
Within(a, b) ==
    \/ a = ""
    \/ a = b
    \/ <<a, b>> \in {<<"for", "forest">>, <<"thing", "something">>,
                     <<"some", "something">>, <<"the", "then">>}

\* the lower-case words of a story field as generate_story sees it: the text,
\* the message, and the analysis block when there is one
FinalWords(s) ==
    {Lower(r.w) : r \in Range(s.text)}
        \cup (IF s.note = "Failed to generate story after multiple attempts."
              THEN {"failed", "to", "generate", "story", "after", "multiple", "attempts"}
              ELSE IF s.note = "OpenAI API client not initialized."
              THEN {"openai", "api", "client", "not", "initialized", "please", "set",
                    "openai_api_key", "environment", "variable"}
              ELSE {})
        \cup (IF s.non_rag # {} THEN {"div", "style", "details", "summary", "rag"} ELSE {})

\* [k.strip() for k in keywords.split(',')]; a piece holds one word at most
keyword_list(kws) ==
    [i \in DOMAIN kws |-> IF strip(kws[i]) = <<>> THEN "" ELSE strip(kws[i])[1]]

\* keywords_used comparing the keyword as it is written
keywords_used_as_written(kws, s) ==
    SelectSeq(keyword_list(kws), LAMBDA k : \E v \in FinalWords(s) : Within(k, v))

\* keyword.lower() in story.lower(), for each keyword in turn; the empty
\* keyword is in every story
keywords_used(kws, s) ==
    SelectSeq(keyword_list(kws),
              LAMBDA k : Lower(k) = "" \/ \E v \in FinalWords(s) : Within(Lower(k), v))

\* the dict generate_story builds around the text generate_story_with_openai
\* returned, as search_and_generate_story copies it.  generate_story_with_openai
\* catches the exceptions of the client, so the local generator of the
\* except branch is never entered.
generate_story(s) ==
    [generation_method |-> "openai",
     story |-> s,
     keywords_used |-> keywords_used(g_keywords, s),
     keyword_usage_rate |->
         IF g_keywords = <<>> THEN [num |-> 0, den |-> 1]
         ELSE [num |-> Len(keywords_used(g_keywords, s)), den |-> Len(g_keywords)],
     vocabulary_restricted |-> use_only_rag_vocabulary,
     vocabulary_count |-> Len(available_vocabulary),
     context_documents_count |-> Len(context_documents)]

\* doc[:200] + "..." if len(doc) > 200 else doc: the characters kept and the mark
limited_doc(doc) ==
    [id |-> doc.id,
     chars |-> IF doc.len > MaxDocChars THEN MaxDocChars ELSE doc.len,
     mark |-> doc.len > MaxDocChars]

\* context_text built from every document
limited_docs_uncut(docs) == [i \in 1..Len(docs) |-> limited_doc(docs[i])]

\* the lines of context_text
limited_docs(docs) ==
    [i \in 1..(IF Len(docs) > MaxContextDocs THEN MaxContextDocs ELSE Len(docs))
        |-> limited_doc(docs[i])]

\* the generator is not in use while the flow runs
GenIdle ==
    /\ g_pc = "idle"
    /\ client = FALSE
    /\ use_only_rag_vocabulary = FALSE
    /\ available_vocabulary = <<>>
    /\ attempt = 0
    /\ best_story = <<>>
    /\ best_rag_rate = [num |-> 0, den |-> 1]
    /\ llmCalls = <<>>
    /\ result = NoResult
    /\ g_keywords = <<>>
    /\ context_documents = <<>>
    /\ context_text = <<>>

\* the flow is not in use while search_and_generate_story runs
FlowIdle ==
    /\ keywords = << <<"ocean">> >>
    /\ length = "medium"
    /\ use_rag_only = FALSE
    /\ allowed_vocab = <<>>
    /\ context = <<>>
    /\ story = <<>>
    /\ critique = ""
    /\ tries = 0
    /\ ok = FALSE
    /\ logs = <<>>
    /\ pc = "idle"
    /\ steps = 0
    /\ agentCalls = 0
    /\ firstDraft = <<>>
    /\ searchCalls = <<>>
    /\ vocabCalls = <<>>
    /\ lastRequest = NoRequest

GenInit ==
    /\ FlowIdle
    /\ g_pc = "search"
    /\ client \in BOOLEAN
    /\ use_only_rag_vocabulary \in BOOLEAN
    /\ available_vocabulary = <<>>
    /\ attempt = 0
    /\ best_story = <<>>
    /\ best_rag_rate = [num |-> 0, den |-> 1]
    /\ llmCalls = <<>>
    /\ result = NoResult
    /\ g_keywords \in GenKeywordInputs
    /\ context_documents = <<>>
    /\ context_text = <<>>

\* search and vocabulary lookup; an exception of either ends the call in the
\* handler of search_and_generate_story
search_and_generate_story ==
    /\ g_pc = "search"
    /\ \E search \in GenSearchOutcomes, filtered \in GenVocabOutcomes :
          IF search.raised \/ (use_only_rag_vocabulary /\ filtered.raised)
          THEN /\ result' = [generation_method |-> "error",
                             story |-> Message("Sorry, I couldn't generate a story.")]
               /\ g_pc' = "done"
               /\ UNCHANGED <<available_vocabulary, context_documents>>
          ELSE \* generate_story passes the vocabulary on only when it is non-empty
               /\ available_vocabulary' =
                     IF use_only_rag_vocabulary THEN filtered.val ELSE <<>>
               /\ context_documents' = search.val
               /\ g_pc' = "openai"
               /\ UNCHANGED result
    /\ UNCHANGED <<client, use_only_rag_vocabulary, attempt, best_story, best_rag_rate,
                   llmCalls, g_keywords, context_text>>
    /\ UNCHANGED flowVars

\* entry of generate_story_with_openai: without a client the message is the story
generate_story_with_openai ==
    /\ g_pc = "openai"
    /\ IF ~client
       THEN /\ result' = generate_story(Message("OpenAI API client not initialized."))
            /\ g_pc' = "done"
            /\ UNCHANGED context_text
       ELSE /\ context_text' = limited_docs(context_documents)
            /\ g_pc' = "attempt"
            /\ UNCHANGED result
    /\ UNCHANGED <<client, use_only_rag_vocabulary, available_vocabulary, attempt,
                   best_story, best_rag_rate, llmCalls, g_keywords, context_documents>>
    /\ UNCHANGED flowVars

\* one iteration of the retry loop that goes on after the last attempt
attempt_without_cap ==
    /\ g_pc = "attempt"
    /\ \E out \in LLMOutcomes :
          LET words == words_of(out.val)
              total == SumRuns(words)
              thing == SumRuns(SelectSeq(words, LAMBDA r : r.w = "thing"))
              something == SumRuns(SelectSeq(words, LAMBDA r : r.w = "something"))
              vocab_set == {Lower(w) : w \in Range(available_vocabulary)}
              rag_words_used == SumRuns(SelectSeq(words, LAMBDA r : r.w \in vocab_set))
              total_content_words ==
                  SumRuns(SelectSeq(words, LAMBDA r : r.w \notin essential))
              short == total < MinWords
              filler == 10 * thing > total \/ 10 * something > total
              rated == /\ ~out.raised /\ ~short /\ ~filler
                       /\ available_vocabulary # <<>> /\ total_content_words > 0
              better == rated /\ rag_words_used * best_rag_rate.den
                                    > best_rag_rate.num * total_content_words
              low == rated /\ 10 * rag_words_used < 4 * total_content_words
              rejected == out.raised \/ short \/ filler \/ low
          IN  /\ llmCalls' = Append(llmCalls, out)
              /\ best_story' = IF better THEN out.val ELSE best_story
              /\ best_rag_rate' =
                    IF better THEN [num |-> rag_words_used, den |-> total_content_words]
                    ELSE best_rag_rate
              /\ IF ~rejected
                 THEN /\ result' = generate_story(
                              _annotate_non_rag_words(out.val, available_vocabulary))
                      /\ g_pc' = "done"
                      /\ UNCHANGED attempt
                 ELSE /\ attempt' = attempt + 1
                      /\ UNCHANGED <<g_pc, result>>
    /\ UNCHANGED <<client, use_only_rag_vocabulary, available_vocabulary, g_keywords,
                   context_documents, context_text>>
    /\ UNCHANGED flowVars

\* one iteration of the retry loop, and what follows the loop after the last
openai_attempt ==
    /\ g_pc = "attempt"
    /\ \E out \in LLMOutcomes :
          LET words == words_of(out.val)
              total == SumRuns(words)
              thing == SumRuns(SelectSeq(words, LAMBDA r : r.w = "thing"))
              something == SumRuns(SelectSeq(words, LAMBDA r : r.w = "something"))
              vocab_set == {Lower(w) : w \in Range(available_vocabulary)}
              rag_words_used == SumRuns(SelectSeq(words, LAMBDA r : r.w \in vocab_set))
              total_content_words ==
                  SumRuns(SelectSeq(words, LAMBDA r : r.w \notin essential))
              short == total < MinWords
              filler == 10 * thing > total \/ 10 * something > total
              rated == /\ ~out.raised /\ ~short /\ ~filler
                       /\ available_vocabulary # <<>> /\ total_content_words > 0
              better == rated /\ rag_words_used * best_rag_rate.den
                                    > best_rag_rate.num * total_content_words
              low == rated /\ 10 * rag_words_used < 4 * total_content_words
              rejected == out.raised \/ short \/ filler \/ low
          IN  /\ llmCalls' = Append(llmCalls, out)
              /\ best_story' = IF better THEN out.val ELSE best_story
              /\ best_rag_rate' =
                    IF better THEN [num |-> rag_words_used, den |-> total_content_words]
                    ELSE best_rag_rate
              /\ IF ~rejected
                 THEN /\ result' = generate_story(
                              _annotate_non_rag_words(out.val, available_vocabulary))
                      /\ g_pc' = "done"
                      /\ UNCHANGED attempt
                 ELSE IF attempt = max_retries - 1
                 THEN /\ result' = generate_story(
                              IF best_story' # <<>>
                              THEN _annotate_non_rag_words(best_story', available_vocabulary)
                              ELSE Message("Failed to generate story after multiple attempts."))
                      /\ g_pc' = "done"
                      /\ UNCHANGED attempt
                 ELSE /\ attempt' = attempt + 1
                      /\ UNCHANGED <<g_pc, result>>
    /\ UNCHANGED <<client, use_only_rag_vocabulary, available_vocabulary, g_keywords,
                   context_documents, context_text>>
    /\ UNCHANGED flowVars

GenNext == search_and_generate_story \/ generate_story_with_openai \/ openai_attempt

GenSpec == GenInit /\ [][GenNext]_vars

----------------------------------------------------------------------------
(* The flow *)

\* state.setdefault("logs", []).append(line); the time stamp is left out
_log(lines, msg) == Append(lines, msg)

Critique ==
    "Increase RAG vocabulary usage to >=60%, avoid generic words, and ensure coherent flow."

\* run_multi_agent_flow: the initial State handed to app.invoke
Init ==
    /\ keywords \in KeywordInputs
    /\ length \in LengthInputs
    /\ \E allowed \in AllowedInputs :
          /\ use_rag_only = (allowed # <<>>)
          /\ allowed_vocab = allowed
    /\ context = <<>>
    /\ story = <<>>
    /\ critique = ""
    /\ tries = 0
    /\ ok = FALSE
    /\ logs = <<>>
    /\ pc = "retrieve"
    /\ steps = 0
    /\ agentCalls = 0
    /\ firstDraft = <<>>
    /\ searchCalls = <<>>
    /\ vocabCalls = <<>>
    /\ lastRequest = NoRequest
    /\ GenIdle

\* compile_app: the unconditional edges of the graph
edge(node) ==
    CASE node = "retrieve" -> "generate"
      [] node = "generate" -> "evaluate"
      [] node = "evaluate" -> "revise"

\* _decide with > for >=
decide_off_by_one(s_ok, s_tries) ==
    IF s_ok \/ s_tries > MaxTries THEN "END" ELSE "generate"

\* _decide without the cap
decide_without_cap(s_ok, s_tries) == IF s_ok THEN "END" ELSE "generate"

\* _decide stopping after the first revision
decide_early(s_ok, s_tries) ==
    IF s_ok \/ s_tries >= MaxTries - 1 THEN "END" ELSE "generate"

\* _decide without the test of ok
decide_ignores_ok(s_ok, s_tries) == IF s_tries >= MaxTries THEN "END" ELSE "generate"

\* the conditional edge after revise
_decide(s_ok, s_tries) == IF s_ok \/ s_tries >= MaxTries THEN "END" ELSE "generate"

\* retrieve_context without the try/except around the search
retrieve_context_uncaught(first, search) ==
    IF first # <<>>
    THEN IF ~search.raised
         THEN [context |-> search.val, msg |-> "Retrieve: ok", escaped |-> FALSE]
         ELSE [context |-> <<>>, msg |-> "Retrieve: failed", escaped |-> TRUE]
    ELSE [context |-> <<>>, msg |-> "Retrieve: no keyword", escaped |-> FALSE]

\* node_retrieve, the context: the search, with its try/except.  escaped
\* tells whether an exception of the search leaves the node.
retrieve_context(first, search) ==
    IF first # <<>>
    THEN IF ~search.raised
         THEN [context |-> search.val, msg |-> "Retrieve: ok", escaped |-> FALSE]
         ELSE [context |-> <<>>, msg |-> "Retrieve: failed", escaped |-> FALSE]
    ELSE [context |-> <<>>, msg |-> "Retrieve: no keyword", escaped |-> FALSE]

\* a call of a vocabulary collaborator, as vocabCalls records it
VocabCall(fn, out) == [fn |-> fn, raised |-> out.raised, val |-> out.val]

\* prepare_vocab taking 30 words for sparse too
prepare_vocab_sparse_at_30(filtered, full, again) ==
    IF ~filtered.raised /\ ~(filtered.val = <<>> \/ Len(filtered.val) <= MinVocab)
    THEN [allowed |-> filtered.val, msg |-> "Vocab: prepared",
          calls |-> <<VocabCall("get_filtered_vocabulary", filtered)>>]
    ELSE IF ~filtered.raised /\ ~full.raised
    THEN [allowed |-> full.val, msg |-> "Vocab: prepared",
          calls |-> <<VocabCall("get_filtered_vocabulary", filtered),
                      VocabCall("get_vocabulary", full)>>]
    ELSE [allowed |-> <<>>, msg |-> "Vocab: failed to prepare",
          calls |-> <<VocabCall("get_filtered_vocabulary", filtered)>>]

\* prepare_vocab whose except block gives up without asking for the full
\* vocabulary
prepare_vocab_no_last_resort(filtered, full, again) ==
    IF ~filtered.raised /\ ~(filtered.val = <<>> \/ Len(filtered.val) < MinVocab)
    THEN [allowed |-> filtered.val, msg |-> "Vocab: prepared",
          calls |-> <<VocabCall("get_filtered_vocabulary", filtered)>>]
    ELSE IF ~filtered.raised /\ ~full.raised
    THEN [allowed |-> full.val, msg |-> "Vocab: prepared",
          calls |-> <<VocabCall("get_filtered_vocabulary", filtered),
                      VocabCall("get_vocabulary", full)>>]
    ELSE [allowed |-> <<>>, msg |-> "Vocab: failed to prepare",
          calls |-> <<VocabCall("get_filtered_vocabulary", filtered)>>
                    \o (IF filtered.raised THEN <<>>
                        ELSE <<VocabCall("get_vocabulary", full)>>)]

\* node_retrieve, the vocabulary of a RAG-only run: filtered is the outcome of
\* get_filtered_vocabulary, full that of get_vocabulary in the try block,
\* again that of get_vocabulary in the except block.  calls lists the calls
\* that are made.
prepare_vocab(filtered, full, again) ==
    IF ~filtered.raised /\ ~(filtered.val = <<>> \/ Len(filtered.val) < MinVocab)
    THEN [allowed |-> filtered.val, msg |-> "Vocab: prepared",
          calls |-> <<VocabCall("get_filtered_vocabulary", filtered)>>]
    ELSE IF ~filtered.raised /\ ~full.raised
    THEN [allowed |-> full.val, msg |-> "Vocab: prepared",
          calls |-> <<VocabCall("get_filtered_vocabulary", filtered),
                      VocabCall("get_vocabulary", full)>>]
    ELSE LET before == <<VocabCall("get_filtered_vocabulary", filtered)>>
                       \o (IF filtered.raised THEN <<>>
                           ELSE <<VocabCall("get_vocabulary", full)>>)
         IN  IF ~again.raised
             THEN [allowed |-> again.val, msg |-> "Vocab: fallback to full",
                   calls |-> Append(before, VocabCall("get_vocabulary", again))]
             ELSE [allowed |-> <<>>, msg |-> "Vocab: failed to prepare",
                   calls |-> Append(before, VocabCall("get_vocabulary", again))]

\* node_retrieve preparing a vocabulary in an unrestricted run too
retrieve_always_prepares ==
    /\ pc = "retrieve"
    /\ \E search \in SearchOutcomes, filtered \in FilteredOutcomes,
          full \in FullOutcomes, again \in FullOutcomes :
          LET first == first_kw(keywords)
              got == retrieve_context(first, search)
              voc == prepare_vocab(filtered, full, again)
              l1 == _log(_log(logs, "Retrieve: start"), got.msg)
          IN  /\ searchCalls' =
                    IF first # <<>>
                    THEN Append(searchCalls,
                                [query |-> first, n_results |-> NResults,
                                 raised |-> search.raised])
                    ELSE searchCalls
              /\ IF got.escaped
                 THEN /\ pc' = "error"
                      /\ logs' = _log(logs, "Retrieve: start")
                      /\ UNCHANGED <<context, allowed_vocab, vocabCalls>>
                 ELSE /\ pc' = edge("retrieve")
                      /\ context' = got.context
                      /\ allowed_vocab' = voc.allowed
                      /\ logs' = _log(l1, voc.msg)
                      /\ vocabCalls' = voc.calls
    /\ steps' = steps + 1
    /\ UNCHANGED genVars
    /\ UNCHANGED lastRequest
    /\ UNCHANGED <<keywords, length, use_rag_only, story, critique, tries, ok,
                   agentCalls, firstDraft>>

node_retrieve ==
    /\ pc = "retrieve"
    /\ \E search \in SearchOutcomes, filtered \in FilteredOutcomes,
          full \in FullOutcomes, again \in FullOutcomes :
          LET first == first_kw(keywords)
              got == retrieve_context(first, search)
              voc == prepare_vocab(filtered, full, again)
              l1 == _log(_log(logs, "Retrieve: start"), got.msg)
          IN  /\ searchCalls' =
                    IF first # <<>>
                    THEN Append(searchCalls,
                                [query |-> first, n_results |-> NResults,
                                 raised |-> search.raised])
                    ELSE searchCalls
              /\ IF got.escaped
                 THEN /\ pc' = "error"
                      /\ logs' = _log(logs, "Retrieve: start")
                      /\ UNCHANGED <<context, allowed_vocab, vocabCalls>>
                 ELSE /\ pc' = edge("retrieve")
                      /\ context' = got.context
                      /\ IF use_rag_only
                         THEN /\ allowed_vocab' = voc.allowed
                              /\ logs' = _log(l1, voc.msg)
                              /\ vocabCalls' = voc.calls
                         ELSE /\ allowed_vocab' = allowed_vocab
                              /\ logs' = l1
                              /\ vocabCalls' = vocabCalls
    /\ steps' = steps + 1
    /\ UNCHANGED genVars
    /\ UNCHANGED lastRequest
    /\ UNCHANGED <<keywords, length, use_rag_only, story, critique, tries, ok,
                   agentCalls, firstDraft>>

\* _make_tool_agent (get_llm, create_react_agent) may raise before any log
\* entry of the node; invoke may raise after "Generate: start"
node_generate ==
    /\ pc = "generate"
    /\ \/ /\ pc' = "error"
          /\ UNCHANGED <<story, firstDraft, logs, agentCalls, lastRequest>>
       \/ /\ \E out \in AgentOutcomes :
                \/ /\ out.raised
                   /\ pc' = "error"
                   /\ logs' = _log(logs, "Generate: start")
                   /\ UNCHANGED <<story, firstDraft>>
                \/ /\ ~out.raised
                   /\ pc' = edge("generate")
                   /\ story' = out.val
                   /\ firstDraft' = IF agentCalls = 0 THEN out.val ELSE firstDraft
                   /\ logs' = _log(_log(logs, "Generate: start"), "Generate: done")
          /\ agentCalls' = agentCalls + 1
          /\ lastRequest' =
                [node |-> "generate",
                 prompt |-> Rendered([input |->
                               [text |-> "Generate a story.",
                                length |-> length,
                                keywords |-> keywords,
                                context |-> context,
                                allowed_vocab |-> IF use_rag_only THEN allowed_vocab ELSE <<>>]]),
                 tools |-> Tools(keywords, context,
                                 IF use_rag_only THEN allowed_vocab ELSE <<>>, length)]
    /\ steps' = steps + 1
    /\ UNCHANGED genVars
    /\ UNCHANGED <<keywords, length, use_rag_only, allowed_vocab, context, critique,
                   tries, ok, searchCalls, vocabCalls>>

\* critique_for never clearing the critique
critique_kept(s_ok) == Critique

\* node_evaluate: the critique that goes with a verdict
critique_for(s_ok) == IF ~s_ok THEN Critique ELSE ""

\* node_evaluate storing the lower-cased story it scored
evaluate_normalising ==
    /\ pc = "evaluate"
    /\ ok' = _judge_ok(story, allowed_vocab)
    /\ critique' = critique_for(ok')
    /\ story' = words_of(story)
    /\ logs' = _log(_log(logs, "Evaluate: start"),
                    IF ok' THEN "Evaluate: ok=True" ELSE "Evaluate: ok=False")
    /\ pc' = edge("evaluate")
    /\ steps' = steps + 1
    /\ UNCHANGED genVars
    /\ UNCHANGED lastRequest
    /\ UNCHANGED <<keywords, length, use_rag_only, allowed_vocab, context,
                   tries, agentCalls, firstDraft, searchCalls, vocabCalls>>

node_evaluate ==
    /\ pc = "evaluate"
    /\ ok' = _judge_ok(story, allowed_vocab)
    /\ critique' = critique_for(ok')
    /\ logs' = _log(_log(logs, "Evaluate: start"),
                    IF ok' THEN "Evaluate: ok=True" ELSE "Evaluate: ok=False")
    /\ pc' = edge("evaluate")
    /\ steps' = steps + 1
    /\ UNCHANGED genVars
    /\ UNCHANGED lastRequest
    /\ UNCHANGED <<keywords, length, use_rag_only, allowed_vocab, context, story,
                   tries, agentCalls, firstDraft, searchCalls, vocabCalls>>

\* node_revise without the early return on ok
revise_without_skip ==
    /\ pc = "revise"
    /\ \/ /\ pc' = "error"
          /\ logs' = _log(logs, "Revise: start")
          /\ UNCHANGED <<story, tries, agentCalls, lastRequest>>
       \/ /\ \E out \in AgentOutcomes :
                \/ /\ out.raised
                   /\ pc' = "error"
                   /\ logs' = _log(logs, "Revise: start")
                   /\ UNCHANGED <<story, tries>>
                \/ /\ ~out.raised
                   /\ story' = out.val
                   /\ tries' = tries + 1
                   /\ logs' = _log(_log(logs, "Revise: start"), "Revise: attempt done")
                   /\ pc' = _decide(ok, tries')
          /\ agentCalls' = agentCalls + 1
          /\ lastRequest' =
                [node |-> "revise",
                 prompt |-> Rendered(
                               [input |-> [text |-> "Revise the story with constraints, then run vocab_analysis."],
                                story |-> story,
                                critique |-> critique,
                                allowed_vocab |-> allowed_vocab,
                                length |-> length]),
                 tools |-> Tools(keywords, context, allowed_vocab, length)]
    /\ steps' = steps + 1
    /\ UNCHANGED genVars
    /\ UNCHANGED <<keywords, length, use_rag_only, allowed_vocab, context, critique,
                   ok, firstDraft, searchCalls, vocabCalls>>

\* after the early return on ok, "Revise: start" is logged before
\* _make_tool_agent, which may raise, and before invoke, which may raise
node_revise ==
    /\ pc = "revise"
    /\ \/ /\ ok
          /\ logs' = _log(logs, "Revise: skipped (already ok)")
          /\ pc' = _decide(ok, tries)
          /\ UNCHANGED <<story, tries, agentCalls, lastRequest>>
       \/ /\ ~ok
          /\ pc' = "error"
          /\ logs' = _log(logs, "Revise: start")
          /\ UNCHANGED <<story, tries, agentCalls, lastRequest>>
       \/ /\ ~ok
          /\ \E out \in AgentOutcomes :
                \/ /\ out.raised
                   /\ pc' = "error"
                   /\ logs' = _log(logs, "Revise: start")
                   /\ UNCHANGED <<story, tries>>
                \/ /\ ~out.raised
                   /\ story' = out.val
                   /\ tries' = tries + 1
                   /\ logs' = _log(_log(logs, "Revise: start"), "Revise: attempt done")
                   /\ pc' = _decide(ok, tries')
          /\ agentCalls' = agentCalls + 1
          /\ lastRequest' =
                [node |-> "revise",
                 prompt |-> Rendered(
                               [input |-> [text |-> "Revise the story with constraints, then run vocab_analysis."],
                                story |-> story,
                                critique |-> critique,
                                allowed_vocab |-> allowed_vocab,
                                length |-> length]),
                 tools |-> Tools(keywords, context, allowed_vocab, length)]
    /\ steps' = steps + 1
    /\ UNCHANGED genVars
    /\ UNCHANGED <<keywords, length, use_rag_only, allowed_vocab, context, critique,
                   ok, firstDraft, searchCalls, vocabCalls>>

Next == node_retrieve \/ node_generate \/ node_evaluate \/ node_revise

Spec == Init /\ [][Next]_vars

\* app.invoke runs the graph to its end: a node that can run does run
FairSpec == Spec /\ WF_vars(Next)

----------------------------------------------------------------------------
(* The scorer alone: node_evaluate applied to a wider range of stories *)

ScorerStories ==
    {Text(t, g, f, d) : t \in 30..(30 + ScorerPad), g \in {0, 4, 5},
                        f \in {29, 30, 45, 48}, d \in {0, 20, 21}}

ScorerVocabs == {<<>>, <<"forest", "magic">>, Vocab(Len(VocabWords))}

ScorerInit ==
    /\ pc = "evaluate"
    /\ story \in ScorerStories
    /\ allowed_vocab \in ScorerVocabs
    /\ use_rag_only = (allowed_vocab # <<>>)
    /\ tries \in 0..(MaxTries - 1)
    /\ keywords = << <<"ocean">> >>
    /\ length = "short"
    /\ context = <<>>
    /\ critique = ""
    /\ ok = FALSE
    /\ logs = <<>>
    /\ steps = 0
    /\ agentCalls = 0
    /\ firstDraft = <<>>
    /\ searchCalls = <<>>
    /\ vocabCalls = <<>>
    /\ lastRequest = NoRequest
    /\ GenIdle

ScorerNext == node_evaluate

ScorerSpec == ScorerInit /\ [][ScorerNext]_vars

----------------------------------------------------------------------------
(* Properties of the flow *)

\* the verdicts logged by the Evaluate steps so far, oldest first
Verdicts == SelectSeq(logs, LAMBDA m : m \in {"Evaluate: ok=True", "Evaluate: ok=False"})

FirstRejected == Verdicts # <<>> /\ Verdicts[1] = "Evaluate: ok=False"

SearchRaised == \E i \in DOMAIN searchCalls : searchCalls[i].raised

Terminal == {"END", "error"}

\* C1: in every state of a run the revision counter tries is between 0 and
\* MaxTries (2), the final state included.
C1_CapInvariant == tries \in 0..MaxTries

C1_Witness == pc = "END" /\ tries = MaxTries

\* C2: a run executes at most 1 + 3 * MaxTries graph nodes and, when each node
\* that can run does run, it reaches END (or leaves with an exception of a
\* collaborator): there is no endless generate/evaluate/revise cycle.
C2_Termination == [](steps <= 1 + 3 * MaxTries) /\ <>(pc \in Terminal)

C2_Witness == pc = "END" /\ steps = 1 + 3 * MaxTries

\* C3: at END, ok is the scorer's verdict on the story that is returned.
C3_AcceptedIsVerdictOnFinalStory == pc = "END" => (ok = _judge_ok(story, allowed_vocab))

\* C4: a Revise step that produced a story and incremented tries is followed
\* by Evaluate.
C4_ReviseThenEvaluate == [][(pc = "revise" /\ tries' = tries + 1) => pc' = "evaluate"]_vars

\* C5: once ok is true it stays true, and no later step changes story or
\* tries or calls the generation agent.
C5_AcceptanceMonotone ==
    [][ok => (ok' /\ story' = story /\ tries' = tries /\ agentCalls' = agentCalls)]_vars

C5_Witness == pc = "END" /\ ok /\ tries = 1

\* C6: a run is at END only with ok or tries >= MaxTries; an evaluation is
\* always followed by the Revise node, which on a rejected story revises
\* (tries + 1) unless the agent raises; and the revision that reaches the cap
\* ends the run normally, ok still false and the story the one just produced.
C6_TerminalCondition ==
    /\ [](pc = "END" => (ok \/ tries >= MaxTries))
    /\ [][pc = "evaluate" => pc' = "revise"]_vars
    /\ [][(pc = "revise" /\ ~ok) => (pc' = "error" \/ tries' = tries + 1)]_vars
    /\ [][(pc = "revise" /\ ~ok /\ tries' = MaxTries)
            => (pc' = "END" /\ ~ok' /\ story' \in Stories)]_vars
    /\ [][(pc = "revise" /\ ~ok /\ tries' < MaxTries /\ pc' # "error")
            => pc' \notin Terminal]_vars

C6_Witness == pc = "END" /\ ~ok /\ tries = MaxTries /\ story # firstDraft

\* C7 as stated: critique is empty iff ok, in every state.
C7_CritiqueIffAccepted == (critique = "") <=> ok

\* C7 amended: from the first Evaluate step on, critique is empty iff ok;
\* before it, critique is empty and ok is false.
C7_CritiqueIffAcceptedOnceEvaluated ==
    IF Verdicts = <<>> THEN critique = "" /\ ~ok ELSE ((critique = "") <=> ok)

C7_Witness == Len(Verdicts) = 2 /\ ok /\ critique = ""

\* C8: when the first draft passes the scorer, the generation agent is called
\* once only, tries stays 0, the story stays that draft, and the run is at
\* Evaluate, at Revise (skipped) or at END with ok true.
C8_OnePass ==
    (agentCalls >= 1 /\ _judge_ok(firstDraft, allowed_vocab))
        => /\ agentCalls = 1
           /\ tries = 0
           /\ story = firstDraft
           /\ pc \in {"evaluate", "revise", "END"}
           /\ (pc = "END" => ok)

C8_Witness ==
    pc = "END" /\ agentCalls = 1 /\ _judge_ok(firstDraft, allowed_vocab) /\ context # <<>>

\* C9 as stated: a first draft that is rejected gives tries = 1 at END.
C9_ExactlyOneRevision == (pc = "END" /\ FirstRejected) => tries = 1

\* C9 amended: after a rejected first draft there are two evaluations, and at
\* END tries is 1 if the second one accepted and 2 if it rejected.
C9_OneOrTwoRevisions ==
    (pc = "END" /\ FirstRejected)
        => /\ Len(Verdicts) = 2
           /\ tries = IF Verdicts[2] = "Evaluate: ok=True" THEN 1 ELSE 2
           /\ ok = (Verdicts[2] = "Evaluate: ok=True")

C9_Witness == pc = "END" /\ FirstRejected /\ tries = 1 /\ firstDraft = Text(20, 0, 40, 0)

\* C10: the Retrieve node always hands over to Generate; when the search
\* raised, context is empty and the log holds the failure entry.
C10_RetrievalNeverFatal ==
    [][pc = "retrieve"
         => /\ pc' = "generate"
            /\ SearchRaised'
                 => /\ context' = <<>>
                    /\ "Retrieve: failed" \in Range(logs')
                    /\ Len(logs') > Len(logs)]_vars

C10_Witness == SearchRaised /\ pc = "evaluate" /\ context = <<>>

----------------------------------------------------------------------------
(* Properties of the Retrieve step *)

Retrieved == steps >= 1

LastVocabCall == vocabCalls[Len(vocabCalls)]

NoKeyword == \A i \in DOMAIN keywords : strip(keywords[i]) = <<>>

\* C11: the search is called once, with k = 3 and with the first piece of the
\* keyword string that is not empty once trimmed; with no such piece it is
\* not called, context is empty and the run goes on to Generate.
C11_SingleQuery ==
    Retrieved
        => IF NoKeyword
           THEN /\ searchCalls = <<>>
                /\ context = <<>>
                /\ steps = 1 => pc = "generate"
           ELSE /\ Len(searchCalls) = 1
                /\ searchCalls[1].n_results = 3
                /\ \E i \in DOMAIN keywords :
                      /\ strip(keywords[i]) # <<>>
                      /\ \A j \in 1..(i - 1) : strip(keywords[j]) = <<>>
                      /\ searchCalls[1].query = strip(keywords[i])

C11_Witness ==
    /\ pc = "generate"
    /\ keywords = << <<" ">>, <<" ", "sailor">> >>
    /\ searchCalls[1].query = <<"sailor">>

\* C12: in a RAG-only run whose filtered vocabulary call returned, a result
\* of fewer than 30 words is replaced by what get_vocabulary returns, and a
\* result of 30 words or more is the allowed vocabulary, in every later state.
C12_VocabularyFallback ==
    (Retrieved /\ use_rag_only /\ ~vocabCalls[1].raised)
        => IF Len(vocabCalls[1].val) < 30
           THEN /\ Len(vocabCalls) >= 2
                /\ LastVocabCall.fn = "get_vocabulary"
                /\ ~LastVocabCall.raised => allowed_vocab = LastVocabCall.val
           ELSE /\ Len(vocabCalls) = 1
                /\ allowed_vocab = vocabCalls[1].val

C12_Witness ==
    /\ pc = "END"
    /\ use_rag_only
    /\ vocabCalls[1].val = Vocab(29)
    /\ allowed_vocab = Vocab(Len(VocabWords))

\* C13: after Retrieve in a RAG-only run in which no search or vocabulary
\* call raised, allowed_vocab is not empty.
C13_AllowedVocabNonEmpty ==
    (/\ Retrieved
     /\ use_rag_only
     /\ ~SearchRaised
     /\ \A i \in DOMAIN vocabCalls : ~vocabCalls[i].raised)
        => allowed_vocab # <<>>

\* C14 as stated: after Retrieve in a RAG-only run, a get_vocabulary call
\* that raised leaves allowed_vocab empty, with the warning in the log.
C14_FullFailureGivesEmpty ==
    (/\ Retrieved
     /\ use_rag_only
     /\ \E i \in DOMAIN vocabCalls :
           vocabCalls[i].fn = "get_vocabulary" /\ vocabCalls[i].raised)
        => /\ allowed_vocab = <<>>
           /\ "Vocab: failed to prepare" \in Range(logs)

\* C14 amended: Retrieve hands over to Generate; after a failure of the
\* filtered call, or of the get_vocabulary call made for a sparse result,
\* get_vocabulary is called (again) and its result is used; allowed_vocab is
\* empty with the warning logged when that last call raised as well.
C14_VocabularyNeverFatal ==
    (Retrieved /\ use_rag_only)
        => /\ steps = 1 => pc = "generate"
           /\ vocabCalls # <<>>
           /\ vocabCalls[1].fn = "get_filtered_vocabulary"
           /\ vocabCalls[1].raised
                 => /\ Len(vocabCalls) = 2
                    /\ vocabCalls[2].fn = "get_vocabulary"
           /\ (~vocabCalls[1].raised /\ Len(vocabCalls) >= 2 /\ vocabCalls[2].raised)
                 => /\ Len(vocabCalls) = 3
                    /\ vocabCalls[3].fn = "get_vocabulary"
           /\ LastVocabCall.raised
                 => /\ Len(vocabCalls) = IF vocabCalls[1].raised THEN 2 ELSE 3
                    /\ allowed_vocab = <<>>
                    /\ "Vocab: failed to prepare" \in Range(logs)
           /\ (~LastVocabCall.raised /\ Len(vocabCalls) > 1)
                 => allowed_vocab = LastVocabCall.val

C14_Witness ==
    /\ pc = "evaluate"
    /\ use_rag_only
    /\ Len(vocabCalls) = 3
    /\ LastVocabCall.raised
    /\ allowed_vocab = <<>>

----------------------------------------------------------------------------
(* Properties of the scorer *)

\* the number of tokens of a text that are in the set S and not in the set T
CountTokens(text, S, T) ==
    SumRuns(SelectSeq(words_of(text), LAMBDA r : r.w \in S /\ r.w \notin T))

\* the words that occur in a text, lower-cased
WordsIn(text) == {r.w : r \in Range(words_of(text))}

Tokens == CountTokens(story, WordsIn(story), {})

ContentTokens == CountTokens(story, WordsIn(story), essential)

AllowedTokens == CountTokens(story, Range(allowed_vocab), essential)

ThingTokens == CountTokens(story, {"thing"}, {})

Scored == pc = "revise"

\* the vocabulary-rate rule is met or does not apply: rate >= 0.6
RateRuleMet ==
    allowed_vocab = <<>> \/ ContentTokens = 0 \/ 5 * AllowedTokens >= 3 * ContentTokens

\* "thing" is at most 5% of the tokens
FillerRuleMet == 20 * ThingTokens <= Tokens

\* C15: a story of fewer than 80 tokens is rejected whatever the vocabulary,
\* and a story of exactly 80 tokens that meets the rate and filler rules is
\* accepted.
C15_LengthBoundary ==
    Scored
        => /\ Tokens < 80 => ~ok
           /\ (Tokens = 80 /\ RateRuleMet /\ FillerRuleMet) => ok

C15_Witness == Scored /\ Tokens = 80 /\ ok /\ allowed_vocab # <<>>

\* C16 as stated: with a vocabulary and a content word, a story of 80 tokens
\* or more is rejected exactly when its rate is below 0.6; with no vocabulary
\* the rate never rejects.
C16_RejectedIffRateBelow ==
    Scored
        => /\ (allowed_vocab # <<>> /\ ContentTokens > 0 /\ Tokens >= 80)
                => (~ok <=> 10 * AllowedTokens < 6 * ContentTokens)
           /\ (allowed_vocab = <<>> /\ Tokens >= 80 /\ FillerRuleMet) => ok

\* C16 amended: the same for the stories in which "thing" is at most 5% of
\* the tokens.
C16_RateBoundary ==
    Scored
        => /\ (allowed_vocab # <<>> /\ ContentTokens > 0 /\ Tokens >= 80 /\ FillerRuleMet)
                => (~ok <=> 10 * AllowedTokens < 6 * ContentTokens)
           /\ (allowed_vocab = <<>> /\ Tokens >= 80 /\ FillerRuleMet) => ok

C16_Witness ==
    Scored /\ ok /\ allowed_vocab # <<>> /\ ContentTokens > 0
           /\ 10 * AllowedTokens = 6 * ContentTokens

\* C17: a story of 80 tokens or more that meets the rate rule and has "thing"
\* as exactly 5% of its tokens is accepted; any story with "thing" above 5%
\* is rejected.
C17_FillerBoundary ==
    Scored
        => /\ (Tokens >= 80 /\ RateRuleMet /\ 20 * ThingTokens = Tokens) => ok
           /\ 20 * ThingTokens > Tokens => ~ok

C17_Witness == Scored /\ ok /\ ThingTokens > 0 /\ 20 * ThingTokens = Tokens

\* C18: an Evaluate step leaves story, tries, context, allowed_vocab,
\* keywords, length and use_rag_only as they are, and its verdict is the
\* scorer's value on that story and vocabulary, whatever tries and logs are.
C18_EvaluateFrame ==
    [][pc = "evaluate"
         => /\ UNCHANGED <<story, tries, context, allowed_vocab, keywords, length,
                           use_rag_only>>
            /\ ok' = _judge_ok(story', allowed_vocab')]_vars

C18_Witness == Scored /\ tries = 1 /\ ok /\ Len(Verdicts) = 2 /\ FirstRejected

----------------------------------------------------------------------------
(* Properties of the story generator *)

Done == g_pc = "done"

\* every one of the three attempts raised or gave the empty text
AllAttemptsFailed ==
    /\ Len(llmCalls) = max_retries
    /\ \A i \in 1..Len(llmCalls) : llmCalls[i].raised \/ llmCalls[i].val = <<>>

\* C19 as stated: when no client is available, or every attempt raised or gave
\* the empty text, the caller's result has generation_method "error" and a
\* story field that explains the failure.
C19_FailureFlaggedAsError ==
    (Done /\ (~client \/ AllAttemptsFailed))
        => /\ result.generation_method = "error"
           /\ result.story.note # ""

\* a candidate clears the thresholds: at least 50 words, "thing" and
\* "something" each at most 10% of them, and with a vocabulary at least 40% of
\* the content words in it
Clears(text) ==
    LET total == CountTokens(text, WordsIn(text), {})
        content == CountTokens(text, WordsIn(text), essential)
        inVocab == CountTokens(text, {Lower(w) : w \in Range(available_vocabulary)},
                               essential)
    IN  /\ total >= 50
        /\ 10 * CountTokens(text, {"thing"}, {}) <= total
        /\ 10 * CountTokens(text, {"something"}, {}) <= total
        /\ available_vocabulary = <<>> \/ content = 0 \/ 10 * inVocab >= 4 * content

CallFailed(i) == llmCalls[i].raised \/ ~Clears(llmCalls[i].val)

\* C20: the model is called at most 3 times and not at all without a client;
\* every call but the last raised or gave a candidate below a threshold; and
\* when the last call gave a candidate that clears the thresholds, that
\* candidate is the story returned.
C20_SelfRetryBound ==
    /\ Len(llmCalls) <= 3
    /\ ~client => llmCalls = <<>>
    /\ \A i \in 1..(Len(llmCalls) - 1) : CallFailed(i)
    /\ (Done /\ llmCalls # <<>> /\ ~CallFailed(Len(llmCalls)))
          => /\ result.generation_method = "openai"
             /\ result.story.text = llmCalls[Len(llmCalls)].val
             /\ result.story.note = ""
    /\ (~Done /\ llmCalls # <<>>) => CallFailed(Len(llmCalls))

C20_Witness ==
    /\ Done
    /\ available_vocabulary # <<>>
    /\ Len(llmCalls) = 3
    /\ llmCalls[1].raised
    /\ ~llmCalls[2].raised /\ CallFailed(2)
    /\ ~CallFailed(3)
    /\ result.story.text = llmCalls[3].val

\* the attempts that produced a text
Produced == {i \in 1..Len(llmCalls) : ~llmCalls[i].raised /\ llmCalls[i].val # <<>>}

\* the share of a text's content words that are in the vocabulary, as a
\* fraction; 0 when there is no content word
UsageRate(text) ==
    LET content == CountTokens(text, WordsIn(text), essential)
        inVocab == CountTokens(text, {Lower(w) : w \in Range(available_vocabulary)},
                               essential)
    IN  IF content = 0 THEN [num |-> 0, den |-> 1] ELSE [num |-> inVocab, den |-> content]

RateAtMost(a, b) == a.num * b.den <= b.num * a.den

\* C21 as stated: when all three attempts failed and one of them produced a
\* text, the story returned is a produced text of the highest usage rate, not
\* a failure message.
C21_BestAttemptReturned ==
    (/\ Done
     /\ Len(llmCalls) = max_retries
     /\ \A i \in 1..Len(llmCalls) : CallFailed(i)
     /\ Produced # {})
        => /\ result.story.note = ""
           /\ \E i \in Produced :
                 /\ result.story.text = llmCalls[i].val
                 /\ \A j \in Produced :
                       RateAtMost(UsageRate(llmCalls[j].val), UsageRate(llmCalls[i].val))

Generated == Done /\ result.generation_method # "error"

\* the keyword occurs in the final story, letter case aside
Occurs(k) == \E v \in FinalWords(result.story) : Within(Lower(k), v)

Prompted == llmCalls # <<>>

\* the number of characters of a line of context_text; the mark is "..."
LineLen(line) == line.chars + (IF line.mark THEN 3 ELSE 0)

\* C23 as stated: the context handed over has a line for each of the first 3
\* documents at most, in their order, and each line has at most 200
\* characters.
C23_LinesAtMost200 ==
    Prompted
        => /\ Len(context_text) <= 3
           /\ Len(context_text) <= Len(context_documents)
           /\ \A i \in 1..Len(context_text) :
                 /\ context_text[i].id = context_documents[i].id
                 /\ LineLen(context_text[i]) <= 200

\* C23 amended: each line holds the first 200 characters of its document at
\* most, followed by "..." exactly when the document is longer than that.
C23_ContextLimited ==
    Prompted
        => /\ Len(context_text) <= 3
           /\ Len(context_text) <= Len(context_documents)
           /\ Len(context_documents) <= 3 => Len(context_text) = Len(context_documents)
           /\ Len(context_documents) > 3 => Len(context_text) = 3
           /\ \A i \in 1..Len(context_text) :
                 /\ context_text[i].id = context_documents[i].id
                 /\ context_text[i].chars <= 200
                 /\ context_text[i].chars <= context_documents[i].len
                 /\ context_text[i].mark <=> context_documents[i].len > 200
                 /\ ~context_text[i].mark => context_text[i].chars = context_documents[i].len
                 /\ context_text[i].mark => context_text[i].chars = 200

C23_Witness ==
    /\ Prompted
    /\ Len(context_documents) = 5
    /\ Len(context_text) = 3
    /\ context_text[3].mark
    /\ LineLen(context_text[3]) = 203

----------------------------------------------------------------------------
(* The scorer and letter case *)

\* a word of the model written with a capital first letter
Capitalize(w) ==
    CASE w = "the" -> "The"
      [] w = "forest" -> "Forest"
      [] w = "thing" -> "Thing"
      [] w = "dragon" -> "Dragon"
      [] OTHER -> w

\* a story with every word in lower case, and with every word capitalised
Lowered(text) == [i \in DOMAIN text |-> [w |-> Lower(text[i].w), n |-> text[i].n]]
Capitalised(text) ==
    [i \in DOMAIN text |-> [w |-> Capitalize(Lower(text[i].w)), n |-> text[i].n]]

\* a vocabulary with its entries capitalised
CapitalisedVocab(allowed) == [i \in DOMAIN allowed |-> Capitalize(allowed[i])]

\* C30 as stated: the verdict is the same for the story in another letter
\* case and for the vocabulary with entries in another letter case.
C30_CaseInsensitive ==
    Scored
        => /\ ok = _judge_ok(Lowered(story), allowed_vocab)
           /\ ok = _judge_ok(Capitalised(story), allowed_vocab)
           /\ ok = _judge_ok(story, CapitalisedVocab(allowed_vocab))

\* C30 amended: the verdict is the same for the story in another letter case;
\* the entries of the vocabulary are compared as they are written with the
\* lower-cased tokens, so against a vocabulary whose entries are capitalised
\* a story with a content word is rejected.
C30_StoryCaseInsensitive ==
    Scored
        => /\ ok = _judge_ok(Lowered(story), allowed_vocab)
           /\ ok = _judge_ok(Capitalised(story), allowed_vocab)
           /\ (allowed_vocab # <<>> /\ ContentTokens > 0)
                => ~_judge_ok(story, CapitalisedVocab(allowed_vocab))

C30_Witness ==
    /\ Scored
    /\ ok
    /\ allowed_vocab # <<>>
    /\ story # Lowered(story)
    /\ _judge_ok(Capitalised(story), allowed_vocab)
    /\ ~_judge_ok(story, CapitalisedVocab(allowed_vocab))

----------------------------------------------------------------------------
(* Further properties of the flow *)

IsPrefix(a, b) == Len(a) <= Len(b) /\ SubSeq(b, 1, Len(a)) = a

IsStrictPrefix(a, b) == IsPrefix(a, b) /\ Len(a) < Len(b)

\* C24 as stated: every step, a Generate step ended by an exception included,
\* leaves a log of which the log before the step is a strict prefix.
C24_EveryStepAppends == [][IsStrictPrefix(logs, logs')]_vars

\* C25 as stated: every Revise step adds exactly 1 to tries and every other
\* step leaves tries as it is.
C25_EveryReviseIncrements ==
    [][/\ pc = "revise" => tries' = tries + 1
       /\ pc # "revise" => tries' = tries]_vars

\* C25 amended: a Revise step that is not skipped and whose agent returns adds
\* exactly 1 to tries; a skipped Revise step, a Revise step ended by an
\* exception, and every other step leave tries as it is.
C25_TriesOnlyByRevise ==
    [][/\ (pc = "revise" /\ ~ok /\ pc' # "error") => tries' = tries + 1
       /\ (pc = "revise" /\ (ok \/ pc' = "error")) => tries' = tries
       /\ pc # "revise" => tries' = tries]_vars

C25_Witness ==
    /\ pc = "END"
    /\ tries = 2
    /\ ~ok
    /\ logs[Len(logs)] = "Revise: attempt done"

\* C26 as stated: what a Revise step hands to the agent holds the rejected
\* story and the critique.
C26_ReviseCarriesStoryAndCritique ==
    lastRequest.node = "revise"
        => /\ "story" \in DOMAIN lastRequest.prompt
           /\ "critique" \in DOMAIN lastRequest.prompt
           /\ lastRequest.prompt["critique"] = Critique

\* C28: context and allowed_vocab are written by the Retrieve step only, the
\* Retrieve step is the first step of a run and runs once, and in an
\* unrestricted run allowed_vocab is empty in every state.
C28_RetrieveOwnsContextAndVocab ==
    /\ [](/\ ~use_rag_only => allowed_vocab = <<>>
          /\ pc = "retrieve" <=> steps = 0)
    /\ [][pc # "retrieve" => UNCHANGED <<context, allowed_vocab>>]_vars

C28_Witness ==
    /\ pc = "END"
    /\ ~use_rag_only
    /\ allowed_vocab = <<>>
    /\ context = Ranked
    /\ tries = 2

----------------------------------------------------------------------------
(* Further properties of the story generator *)

\* the OpenAI path failed: no client, or every attempt raised
OpenAIFailed ==
    \/ ~client
    \/ /\ Len(llmCalls) = max_retries
       /\ \A i \in 1..Len(llmCalls) : llmCalls[i].raised

\* C27 as stated: a result of an unrestricted call whose OpenAI path failed
\* reports the method "local", and a result of a restricted call with a
\* vocabulary reports "openai".
C27_LocalFallback ==
    Generated
        => /\ (available_vocabulary = <<>> /\ OpenAIFailed)
                => result.generation_method = "local"
           /\ (use_only_rag_vocabulary /\ available_vocabulary # <<>>)
                => result.generation_method = "openai"

\* C29 as stated: a result that reports vocabulary_restricted was generated
\* with a non-empty vocabulary handed to the generator.
C29_RestrictedMeansVocabulary ==
    (Generated /\ result.vocabulary_restricted)
        => /\ available_vocabulary # <<>>
           /\ result.vocabulary_count > 0

====
